---- MODULE Spec2Model ----
(***************************************************************************)
(* Model of enhanced_mygov_ai.py: the document-to-decision pipeline        *)
(* (extract_pdf_text -> get_scheme_summary -> check_eligibility ->         *)
(* translate_to_hindi -> translate_to_telugu) driven by main().            *)
(*                                                                         *)
(* A Python str is a sequence of one-character strings, one element per    *)
(* code point; non-ASCII code points are written "U+XXXX".                 *)
(***************************************************************************)
EXTENDS Integers, Sequences, FiniteSets, TLC

VARIABLES
    pc,                     \* position of main() in the current script run
    button,                 \* main: what st.button(...) returns in this run
    doc,                    \* page texts page.get_text() yields, in page order
    text,                   \* main: text = extract_pdf_text(uploaded_pdf)
    max_chars,              \* get_scheme_summary: the max_chars parameter
    prompt_text,            \* get_scheme_summary: {text} embedded in the prompt
    summary,                \* main: summary
    elig_arg,               \* check_eligibility: {summary} embedded in the prompt
    eligibility,            \* main: eligibility
    hindi_in,               \* translate_to_hindi: the text argument
    hindi_exc,              \* translate_to_hindi: str(e) of the completion failure
    paragraphs,             \* translate_to_hindi: paragraphs still to visit
    translated_paragraphs,  \* translate_to_hindi: translated_paragraphs
    hindi_translation,      \* main: hindi_translation
    telugu_in,              \* translate_to_telugu: the text argument
    sentences,              \* translate_to_telugu: sentences still to visit
    translated_sentences,   \* translate_to_telugu: translated_sentences
    telugu_translation,     \* main: telugu_translation
    display,                \* what the run has rendered, in order
    calls,                  \* stage functions invoked in this run, in order
    rets,                   \* stage functions that have returned, in order
    caught,                 \* kinds of failure an except clause has caught
    gt_log                  \* phrase-service requests: [target, src, resp]

vars == <<pc, button, doc, text, max_chars, prompt_text, summary, elig_arg, eligibility,
          hindi_in, hindi_exc, paragraphs, translated_paragraphs,
          hindi_translation, telugu_in, sentences, translated_sentences,
          telugu_translation, display, calls, rets, caught, gt_log>>

-----------------------------------------------------------------------------
(* Bounds of the model *)

MaxPages == 3
MaxAtoms == 4
MaxTextLen == 12
MaxBudget == 11

(* Program constants *)

DefaultMaxChars == 10000
PreviewLimit == 2000
MinSentenceLen == 2

-----------------------------------------------------------------------------
(* Python str helpers *)

IsSpace(c) == c \in {" ", "\n", "\t", "\r"}

RECURSIVE LStrip(_)
LStrip(s) == IF s # <<>> /\ IsSpace(Head(s)) THEN LStrip(Tail(s)) ELSE s

RECURSIVE RStrip(_)
RStrip(s) ==
    IF s # <<>> /\ IsSpace(s[Len(s)]) THEN RStrip(SubSeq(s, 1, Len(s) - 1)) ELSE s

Strip(s) == RStrip(LStrip(s))

DigitChars == <<"0", "1", "2", "3", "4", "5", "6", "7", "8", "9">>

RECURSIVE Str(_)
Str(n) == IF n < 10 THEN <<DigitChars[n + 1]>>
          ELSE Str(n \div 10) \o <<DigitChars[(n % 10) + 1]>>

RECURSIVE Join(_, _)
Join(parts, sep) ==
    IF parts = <<>> THEN <<>>
    ELSE IF Len(parts) = 1 THEN parts[1]
    ELSE parts[1] \o sep \o Join(Tail(parts), sep)

\* the members of a finite set of integers in ascending order
SortedSeq(S) ==
    [k \in 1..Cardinality(S) |->
        CHOOSE x \in S : Cardinality({y \in S : y < x}) = k - 1]

IsPrefix(p, s) == Len(p) <= Len(s) /\ SubSeq(s, 1, Len(p)) = p

-----------------------------------------------------------------------------
(* extract_pdf_text *)

PageMarker(n) ==
    <<"\n", "-", "-", "-", " ", "P", "a", "g", "e", " ">> \o Str(n)
        \o <<" ", "-", "-", "-", "\n">>

\* fault: the page test without strip(), so a whitespace-only page is kept
PageHasText_NoStrip(page_text) == page_text # <<>>

PageHasText(page_text) == Strip(page_text) # <<>>

RECURSIVE ExtractLoop(_, _, _)
ExtractLoop(pages, page_num, acc) ==
    IF page_num >= Len(pages) THEN acc
    ELSE ExtractLoop(pages, page_num + 1,
            IF PageHasText(pages[page_num + 1])
            THEN acc \o PageMarker(page_num + 1) \o pages[page_num + 1]
            ELSE acc)

Item(widget, msg, body) == [widget |-> widget, msg |-> msg, body |-> body]

\* raised = TRUE: fitz.open / get_text / close raised; exc is str(e)
ExtractPdfText(pages, raised, exc) ==
    IF raised
    THEN [ret |-> <<>>, shown |-> <<Item("error", "Error reading PDF: ", exc)>>,
          caught |-> {"pdf"}]
    ELSE LET t == ExtractLoop(pages, 0, <<>>) IN
         IF Strip(t) = <<>>
         THEN [ret |-> <<>>,
               shown |-> <<Item("warning", "No text found in the PDF", <<>>)>>,
               caught |-> {}]
         ELSE [ret |-> t, shown |-> <<>>, caught |-> {}]

-----------------------------------------------------------------------------
(* get_scheme_summary *)

\* text[:n]
SlicePrefix(s, n) ==
    IF n >= 0 THEN SubSeq(s, 1, IF n < Len(s) THEN n ELSE Len(s))
    ELSE SubSeq(s, 1, Len(s) + n)

\* s.rfind(c): the 0-based index of the last c in s, -1 when there is none
RFind(s, c) ==
    LET hits == {i \in 1..Len(s) : s[i] = c} IN
    IF hits = {} THEN -1
    ELSE (CHOOSE i \in hits : \A j \in hits : j <= i) - 1

\* fault: any period in the cut is taken, however early
PastEightyPercent_AnyPeriod(last_period, budget) == last_period >= 0

\* last_period > max_chars * 0.8   (0.8 = 4/5; exact for the integers compared)
PastEightyPercent(last_period, budget) == 5 * last_period > 4 * budget

TruncateForPrompt(t, budget) ==
    IF Len(t) > budget
    THEN LET cut == SlicePrefix(t, budget)
             last_period == RFind(cut, ".")
         IN IF PastEightyPercent(last_period, budget)
            THEN SlicePrefix(cut, last_period + 1)
            ELSE cut
    ELSE t

ErrSummaryPrefix ==
    <<"E", "r", "r", "o", "r", " ", "g", "e", "n", "e", "r", "a", "t", "i", "n",
      "g", " ", "s", "u", "m", "m", "a", "r", "y", ":", " ">>

\* fault: the except clause returns an empty summary
SummaryResult_Swallowed(ok, content, exc) == IF ok THEN content ELSE <<>>

\* ok: the completion call returned content; otherwise it raised, str(e) = exc
SummaryResult(ok, content, exc) ==
    IF ok THEN content ELSE ErrSummaryPrefix \o exc

-----------------------------------------------------------------------------
(* check_eligibility *)

ErrEligibilityPrefix ==
    <<"E", "r", "r", "o", "r", " ", "c", "h", "e", "c", "k", "i", "n", "g", " ",
      "e", "l", "i", "g", "i", "b", "i", "l", "i", "t", "y", ":", " ">>

\* fault: the document text is passed where the summary belongs
EligibilityPromptSummary_PassesText(main_text, main_summary) == main_text

\* the {summary} the eligibility prompt embeds, given main's arguments
EligibilityPromptSummary(main_text, main_summary) == main_summary

EligibilityResult(ok, content, exc) ==
    IF ok THEN content ELSE ErrEligibilityPrefix \o exc

-----------------------------------------------------------------------------
(* the phrase-based service: GoogleTranslator(...).translate(src) *)

GtResponses == {"ok", "raise", "empty", "none"}

NoneValue == <<"<None>">>

HiText == <<"U+0939", "U+093E", "U+0901">>
TeText == <<"U+0C05", "U+0C35", "U+0C41", "U+0C28", "U+0C41">>

\* the value translate() returns when it does not raise
GtValue(target, resp) ==
    IF resp = "ok" THEN (IF target = "hi" THEN HiText ELSE TeText)
    ELSE IF resp = "empty" THEN <<>>
    ELSE NoneValue

\* Python truthiness of a str-or-None value
Truthy(v) == v # <<>> /\ v # NoneValue

-----------------------------------------------------------------------------
(* translate_to_hindi *)

TranslationErrorPrefix ==
    <<"T", "r", "a", "n", "s", "l", "a", "t", "i", "o", "n", " ", "e", "r", "r",
      "o", "r", ":", " ">>

\* text.split('\n\n'): the separators are matched left to right without
\* overlap, so in a run of newlines they start at every second position
SplitParagraphs(s) ==
    LET n == Len(s)
        RunStart(i) ==
            CHOOSE j \in 1..i :
                /\ \A k \in j..i : s[k] = "\n"
                /\ (j = 1 \/ s[j - 1] # "\n")
        seps == {i \in 1..(n - 1) :
                    /\ s[i] = "\n"
                    /\ s[i + 1] = "\n"
                    /\ (i - RunStart(i)) % 2 = 0}
        starts == {1} \cup {i + 2 : i \in seps}
        EndOf(a) ==
            LET later == {i \in seps : i >= a} IN
            IF later = {} THEN n
            ELSE (CHOOSE i \in later : \A j \in later : i <= j) - 1
        order == SortedSeq(starts)
    IN [k \in 1..Len(order) |-> SubSeq(s, order[k], EndOf(order[k]))]

ParagraphIsTranslated(paragraph) == Strip(paragraph) # <<>>

HindiError(exc) == TranslationErrorPrefix \o exc

\* fault: the join skips the paragraphs that have no translation
HindiFallbackJoin_SkipsNone(parts, exc) ==
    [ret |-> Join(SelectSeq(parts, LAMBDA x : x # NoneValue), <<"\n", "\n">>),
     caught |-> {}]

\* '\n\n'.join(translated_paragraphs) inside the inner try: a None item raises
\* TypeError, which the bare except turns into the error string
HindiFallbackJoin(parts, exc) ==
    IF \E i \in 1..Len(parts) : parts[i] = NoneValue
    THEN [ret |-> HindiError(exc), caught |-> {"hindi_fallback"}]
    ELSE [ret |-> Join(parts, <<"\n", "\n">>), caught |-> {}]

-----------------------------------------------------------------------------
(* translate_to_telugu *)

IsTerminator(c) == c \in {".", "!", "?"}

\* re.split(r'[.!?]+', text): every maximal run of terminators separates two
\* pieces; a run at either end of the text leaves an empty piece there
SplitSentences(s) ==
    LET n == Len(s)
        starts == {1} \cup
                  {i \in 2..(n + 1) :
                      /\ IsTerminator(s[i - 1])
                      /\ (i = n + 1 \/ ~IsTerminator(s[i]))}
        EndOf(a) ==
            (CHOOSE j \in a..(n + 1) :
                /\ (j = n + 1 \/ IsTerminator(s[j]))
                /\ \A k \in a..(j - 1) : ~IsTerminator(s[k])) - 1
        order == SortedSeq(starts)
    IN [k \in 1..Len(order) |-> SubSeq(s, order[k], EndOf(order[k]))]

\* if sentence and len(sentence) > 2
KeepSentence(sentence) == sentence # <<>> /\ Len(sentence) > MinSentenceLen

\* fault: a sentence whose translation raised is left out
TeluguSegment_DropsFailed(sentence, resp) ==
    IF resp # "raise" /\ Truthy(GtValue("te", resp))
    THEN <<GtValue("te", resp)>> ELSE <<>>

\* what one pass of the loop body appends for a kept sentence
TeluguSegment(sentence, resp) ==
    IF resp = "raise" THEN <<sentence>>
    ELSE IF Truthy(GtValue("te", resp)) THEN <<GtValue("te", resp)>>
    ELSE <<>>

TeluguJoin(parts) == Join(parts, <<".", " ">>)

-----------------------------------------------------------------------------
(* main: the two combined texts *)

HindiLabel ==
    <<"\n", "\n", "-", "-", "-", " ", "U+0906", "U+092A", "U+0915", "U+0940",
      " ", "U+092A", "U+093E", "U+0924", "U+094D", "U+0930", "U+0924", "U+093E",
      " ", "-", "-", "-", "\n">>

TeluguLabel ==
    <<"\n", "\n", "-", "-", "-", " ", "U+0C2E", "U+0C40", " ", "U+0C05",
      "U+0C30", "U+0C4D", "U+0C39", "U+0C24", " ", "-", "-", "-", "\n">>

CombinedHindi(main_summary, main_eligibility) ==
    main_summary \o HindiLabel \o main_eligibility

CombinedTelugu(main_summary, main_eligibility) ==
    main_summary \o TeluguLabel \o main_eligibility

\* text[:2000] + "..." if len(text) > 2000 else text
Preview(t) ==
    IF Len(t) > PreviewLimit
    THEN SlicePrefix(t, PreviewLimit) \o <<".", ".", ".">>
    ELSE t

\* fault: the branch on the extracted text is always taken
TextIsTruthy_Always(t) == TRUE

\* if text:
TextIsTruthy(t) == t # <<>>

-----------------------------------------------------------------------------
(* Inputs: documents, service contents and failure messages *)

RECURSIVE Flatten(_)
Flatten(ss) == IF ss = <<>> THEN <<>> ELSE Head(ss) \o Flatten(Tail(ss))

SeqsUpTo(S, n) == UNION {[1..k -> S] : k \in 0..n}

PageTexts == {<<>>, <<" ", "\n">>, <<"a", ".">>, <<" ", "b", "\n">>}
PipelinePageTexts == {<<" ">>, <<"a", ".">>}

Docs(page_texts) == SeqsUpTo(page_texts, MaxPages)

ExcMsgs == {<<"5", "0", "3">>}

SummaryContents ==
    {<<"A", "i", "d", ".", " ", "N", "o">>,
     <<"P", "l", "a", "n", "\n", "\n", " ", "\n", "\n", "O", "k", "?">>}

EligContents == {<<"Y", "e", "s", "!", " ", "G", "o">>}

HindiContents == {<<"U+0920", "U+0940", "U+0915">>}

TruncTexts == SeqsUpTo({"a", "."}, MaxTextLen)

Budgets == 1..MaxBudget

HindiAtoms == {<<"a">>, <<" ">>, <<"\n">>, <<"\n", "\n">>}
HindiTexts == {Flatten(ss) : ss \in SeqsUpTo(HindiAtoms, MaxAtoms)}

TeluguAtoms == {<<"a", "b", "c">>, <<" ", "G", "o">>, <<".">>, <<"!", "?">>, <<" ">>}
TeluguTexts == {Flatten(ss) : ss \in SeqsUpTo(TeluguAtoms, MaxAtoms)}

-----------------------------------------------------------------------------
(* State *)

summaryVars == <<max_chars, prompt_text, summary>>
eligVars == <<elig_arg, eligibility>>
hindiVars == <<hindi_in, hindi_exc, paragraphs, translated_paragraphs,
               hindi_translation>>
teluguVars == <<telugu_in, sentences, translated_sentences, telugu_translation>>
runLog == <<display, calls, rets, caught, gt_log>>

\* a run in which nothing has been computed or rendered yet, with the given
\* extracted text, summary budget and texts handed to the two translators
Fresh(t, budget, hindi_text, telugu_text) ==
    /\ text = t
    /\ max_chars = budget
    /\ prompt_text = <<>>
    /\ summary = <<>>
    /\ elig_arg = <<>>
    /\ eligibility = <<>>
    /\ hindi_in = hindi_text
    /\ hindi_exc = <<>>
    /\ paragraphs = <<>>
    /\ translated_paragraphs = <<>>
    /\ hindi_translation = <<>>
    /\ telugu_in = telugu_text
    /\ sentences = <<>>
    /\ translated_sentences = <<>>
    /\ telugu_translation = <<>>
    /\ display = <<>>
    /\ calls = <<>>
    /\ rets = <<>>
    /\ caught = {}
    /\ gt_log = <<>>

Init ==
    /\ pc = "idle"
    /\ button = FALSE
    /\ doc = <<>>
    /\ Fresh(<<>>, DefaultMaxChars, <<>>, <<>>)

-----------------------------------------------------------------------------
(* main: upload, extraction and the branch on the extracted text *)

Upload(docs) ==
    /\ pc = "idle"
    /\ \E d \in docs : doc' = d
    /\ pc' = "extract"
    /\ UNCHANGED <<button, text, summaryVars, eligVars, hindiVars, teluguVars,
                   runLog>>

ExtractStage ==
    /\ pc = "extract"
    /\ \E raised \in BOOLEAN, exc \in ExcMsgs :
         LET r == ExtractPdfText(doc, raised, exc) IN
         /\ text' = r.ret
         /\ display' = Append(display, Item("info", "Uploaded", <<>>)) \o r.shown
         /\ caught' = caught \cup r.caught
    /\ calls' = Append(calls, "extract_pdf_text")
    /\ rets' = Append(rets, "extract_pdf_text")
    /\ pc' = "extracted"
    /\ UNCHANGED <<button, doc, summaryVars, eligVars, hindiVars, teluguVars,
                   gt_log>>

MainNoText ==
    /\ pc = "extracted"
    /\ ~TextIsTruthy(text)
    /\ display' = Append(display,
                         Item("error", "Could not extract text from the PDF", <<>>))
    /\ pc' = "failed"
    /\ UNCHANGED <<button, doc, text, summaryVars, eligVars, hindiVars,
                   teluguVars, calls, rets, caught, gt_log>>

MainShowForm ==
    /\ pc = "extracted"
    /\ TextIsTruthy(text)
    /\ display' = Append(display, Item("text_area", "Preview", Preview(text)))
    /\ pc' = "form"
    /\ UNCHANGED <<button, doc, text, summaryVars, eligVars, hindiVars,
                   teluguVars, calls, rets, caught, gt_log>>

\* if st.button(...): the run of the click goes on, any other run ends here
MainButton ==
    /\ pc = "form"
    /\ pc' = IF button THEN "summarize" ELSE "waiting"
    /\ UNCHANGED <<button, doc, text, summaryVars, eligVars, hindiVars,
                   teluguVars, runLog>>

\* the click reruns the script from the top with the button reported pressed
ClickAnalyze ==
    /\ pc = "waiting"
    /\ button' = TRUE
    /\ pc' = "extract"
    /\ text' = <<>>
    /\ max_chars' = DefaultMaxChars
    /\ prompt_text' = <<>>
    /\ summary' = <<>>
    /\ elig_arg' = <<>>
    /\ eligibility' = <<>>
    /\ hindi_in' = <<>>
    /\ hindi_exc' = <<>>
    /\ paragraphs' = <<>>
    /\ translated_paragraphs' = <<>>
    /\ hindi_translation' = <<>>
    /\ telugu_in' = <<>>
    /\ sentences' = <<>>
    /\ translated_sentences' = <<>>
    /\ telugu_translation' = <<>>
    /\ display' = <<>>
    /\ calls' = <<>>
    /\ rets' = <<>>
    /\ caught' = {}
    /\ gt_log' = <<>>
    /\ UNCHANGED doc

-----------------------------------------------------------------------------
(* main + get_scheme_summary *)

GetSchemeSummaryCall ==
    /\ pc = "summarize"
    /\ prompt_text' = TruncateForPrompt(text, max_chars)
    /\ calls' = Append(calls, "get_scheme_summary")
    /\ pc' = "summarize_wait"
    /\ UNCHANGED <<button, doc, text, max_chars, summary, eligVars, hindiVars,
                   teluguVars, display, rets, caught, gt_log>>

GetSchemeSummaryReturn ==
    /\ pc = "summarize_wait"
    /\ \E ok \in BOOLEAN, content \in SummaryContents, exc \in ExcMsgs :
         /\ summary' = SummaryResult(ok, content, exc)
         /\ caught' = IF ok THEN caught ELSE caught \cup {"summary"}
    /\ display' = Append(display, Item("markdown", "Scheme Summary", summary'))
    /\ rets' = Append(rets, "get_scheme_summary")
    /\ pc' = "eligibility"
    /\ UNCHANGED <<button, doc, text, max_chars, prompt_text, eligVars,
                   hindiVars, teluguVars, calls, gt_log>>

-----------------------------------------------------------------------------
(* main + check_eligibility *)

CheckEligibilityCall ==
    /\ pc = "eligibility"
    /\ elig_arg' = EligibilityPromptSummary(text, summary)
    /\ calls' = Append(calls, "check_eligibility")
    /\ pc' = "eligibility_wait"
    /\ UNCHANGED <<button, doc, text, summaryVars, eligibility, hindiVars,
                   teluguVars, display, rets, caught, gt_log>>

CheckEligibilityReturn ==
    /\ pc = "eligibility_wait"
    /\ \E ok \in BOOLEAN, content \in EligContents, exc \in ExcMsgs :
         /\ eligibility' = EligibilityResult(ok, content, exc)
         /\ caught' = IF ok THEN caught ELSE caught \cup {"eligibility"}
    /\ display' = Append(display,
                         Item("markdown", "Your Eligibility Status", eligibility'))
    /\ rets' = Append(rets, "check_eligibility")
    /\ pc' = "hindi"
    /\ UNCHANGED <<button, doc, text, summaryVars, elig_arg, hindiVars,
                   teluguVars, calls, gt_log>>

-----------------------------------------------------------------------------
(* main + translate_to_hindi *)

MainCombineHindi ==
    /\ pc = "hindi"
    /\ hindi_in' = CombinedHindi(summary, eligibility)
    /\ pc' = "hindi_call"
    /\ UNCHANGED <<button, doc, text, summaryVars, eligVars, hindi_exc,
                   paragraphs, translated_paragraphs, hindi_translation,
                   teluguVars, runLog>>

TranslateToHindiCall ==
    /\ pc = "hindi_call"
    /\ calls' = Append(calls, "translate_to_hindi")
    /\ pc' = "hindi_wait"
    /\ UNCHANGED <<button, doc, text, summaryVars, eligVars, hindiVars,
                   teluguVars, display, rets, caught, gt_log>>

\* fault: the completion failure is not caught and ends the run
AfterHindiCompletion_Uncaught(ok) == IF ok THEN "hindi_return" ELSE "raised"

\* fault: the completion failure starts the stage again
AfterHindiCompletion_Retry(ok) == IF ok THEN "hindi_return" ELSE "hindi_call"

\* where translate_to_hindi goes after the completion call
AfterHindiCompletion(ok) == IF ok THEN "hindi_return" ELSE "hindi_fallback"

HindiCompletionReturn ==
    /\ pc = "hindi_wait"
    /\ \E ok \in BOOLEAN, content \in HindiContents, exc \in ExcMsgs :
         /\ pc' = AfterHindiCompletion(ok)
         /\ hindi_translation' = IF ok THEN content ELSE hindi_translation
         /\ hindi_exc' = IF ok THEN hindi_exc ELSE exc
         /\ paragraphs' = IF ok THEN paragraphs ELSE SplitParagraphs(hindi_in)
         /\ caught' = IF ok THEN caught ELSE caught \cup {"hindi_completion"}
    /\ UNCHANGED <<button, doc, text, summaryVars, eligVars, hindi_in,
                   translated_paragraphs, teluguVars, display, calls, rets,
                   gt_log>>

\* one pass of: for paragraph in paragraphs
HindiFallbackStep(responses) ==
    /\ pc = "hindi_fallback"
    /\ paragraphs # <<>>
    /\ LET paragraph == Head(paragraphs) IN
       IF ParagraphIsTranslated(paragraph)
       THEN \E resp \in responses :
              /\ gt_log' = Append(gt_log,
                               [target |-> "hi", src |-> paragraph, resp |-> resp])
              /\ IF resp = "raise"
                 THEN /\ hindi_translation' = HindiError(hindi_exc)
                      /\ caught' = caught \cup {"hindi_fallback"}
                      /\ pc' = "hindi_return"
                      /\ UNCHANGED <<paragraphs, translated_paragraphs>>
                 ELSE /\ translated_paragraphs' =
                            Append(translated_paragraphs, GtValue("hi", resp))
                      /\ paragraphs' = Tail(paragraphs)
                      /\ UNCHANGED <<pc, hindi_translation, caught>>
       ELSE /\ paragraphs' = Tail(paragraphs)
            /\ UNCHANGED <<pc, translated_paragraphs, hindi_translation, caught,
                           gt_log>>
    /\ UNCHANGED <<button, doc, text, summaryVars, eligVars, hindi_in, hindi_exc,
                   teluguVars, display, calls, rets>>

HindiFallbackFinish ==
    /\ pc = "hindi_fallback"
    /\ paragraphs = <<>>
    /\ LET r == HindiFallbackJoin(translated_paragraphs, hindi_exc) IN
         /\ hindi_translation' = r.ret
         /\ caught' = caught \cup r.caught
    /\ pc' = "hindi_return"
    /\ UNCHANGED <<button, doc, text, summaryVars, eligVars, hindi_in, hindi_exc,
                   paragraphs, translated_paragraphs, teluguVars, display, calls,
                   rets, gt_log>>

TranslateToHindiReturn ==
    /\ pc = "hindi_return"
    /\ rets' = Append(rets, "translate_to_hindi")
    /\ display' = Append(display, Item("markdown", "Hindi", hindi_translation))
    /\ pc' = "telugu"
    /\ UNCHANGED <<button, doc, text, summaryVars, eligVars, hindiVars,
                   teluguVars, calls, caught, gt_log>>

-----------------------------------------------------------------------------
(* main + translate_to_telugu *)

MainCombineTelugu ==
    /\ pc = "telugu"
    /\ telugu_in' = CombinedTelugu(summary, eligibility)
    /\ pc' = "telugu_call"
    /\ UNCHANGED <<button, doc, text, summaryVars, eligVars, hindiVars,
                   sentences, translated_sentences, telugu_translation, runLog>>

TranslateToTeluguCall ==
    /\ pc = "telugu_call"
    /\ sentences' = SplitSentences(telugu_in)
    /\ calls' = Append(calls, "translate_to_telugu")
    /\ pc' = "telugu_loop"
    /\ UNCHANGED <<button, doc, text, summaryVars, eligVars, hindiVars,
                   telugu_in, translated_sentences, telugu_translation, display,
                   rets, caught, gt_log>>

\* one pass of: for sentence in sentences
TeluguStep(responses) ==
    /\ pc = "telugu_loop"
    /\ sentences # <<>>
    /\ LET sentence == Strip(Head(sentences)) IN
       IF KeepSentence(sentence)
       THEN \E resp \in responses :
              /\ gt_log' = Append(gt_log,
                               [target |-> "te", src |-> sentence, resp |-> resp])
              /\ translated_sentences' =
                     translated_sentences \o TeluguSegment(sentence, resp)
              /\ caught' = IF resp = "raise"
                           THEN caught \cup {"telugu_sentence"} ELSE caught
       ELSE UNCHANGED <<gt_log, translated_sentences, caught>>
    /\ sentences' = Tail(sentences)
    /\ UNCHANGED <<pc, button, doc, text, summaryVars, eligVars, hindiVars,
                   telugu_in, telugu_translation, display, calls, rets>>

TranslateToTeluguReturn ==
    /\ pc = "telugu_loop"
    /\ sentences = <<>>
    /\ telugu_translation' = TeluguJoin(translated_sentences)
    /\ rets' = Append(rets, "translate_to_telugu")
    /\ display' = display
                    \o <<Item("markdown", "Telugu", telugu_translation'),
                         Item("success", "Analysis complete", <<>>)>>
    /\ pc' = "done"
    /\ UNCHANGED <<button, doc, text, summaryVars, eligVars, hindiVars,
                   telugu_in, sentences, translated_sentences, calls, caught,
                   gt_log>>

-----------------------------------------------------------------------------
(* Specifications *)

Next ==
    \/ Upload(Docs(PipelinePageTexts))
    \/ ExtractStage
    \/ MainNoText
    \/ MainShowForm
    \/ MainButton
    \/ ClickAnalyze
    \/ GetSchemeSummaryCall
    \/ GetSchemeSummaryReturn
    \/ CheckEligibilityCall
    \/ CheckEligibilityReturn
    \/ MainCombineHindi
    \/ TranslateToHindiCall
    \/ HindiCompletionReturn
    \/ HindiFallbackStep(GtResponses)
    \/ HindiFallbackFinish
    \/ TranslateToHindiReturn
    \/ MainCombineTelugu
    \/ TranslateToTeluguCall
    \/ TeluguStep(GtResponses)
    \/ TranslateToTeluguReturn

Spec == Init /\ [][Next]_vars

\* every call main() makes returns or raises, so a run never stops half way
FairSpec == Spec /\ WF_vars(Next)

-----------------------------------------------------------------------------
(* Each function on its own, over a bounded set of inputs *)

InitExtract == Init

NextExtract ==
    \/ Upload(Docs(PageTexts))
    \/ ExtractStage
    \/ MainNoText
    \/ MainShowForm

SpecExtract == InitExtract /\ [][NextExtract]_vars

InitSummary ==
    /\ pc = "summarize"
    /\ button = TRUE
    /\ doc = <<>>
    /\ \E t \in TruncTexts, budget \in Budgets : Fresh(t, budget, <<>>, <<>>)

NextSummary ==
    \/ GetSchemeSummaryCall
    \/ GetSchemeSummaryReturn

SpecSummary == InitSummary /\ [][NextSummary]_vars

InitHindi ==
    /\ pc = "hindi_call"
    /\ button = TRUE
    /\ doc = <<>>
    /\ \E t \in HindiTexts : Fresh(<<>>, DefaultMaxChars, t, <<>>)

NextHindi ==
    \/ TranslateToHindiCall
    \/ HindiCompletionReturn
    \/ HindiFallbackStep(GtResponses)
    \/ HindiFallbackFinish
    \/ TranslateToHindiReturn

SpecHindi == InitHindi /\ [][NextHindi]_vars

InitTelugu ==
    /\ pc = "telugu_call"
    /\ button = TRUE
    /\ doc = <<>>
    /\ \E t \in TeluguTexts : Fresh(<<>>, DefaultMaxChars, <<>>, t)

NextTelugu ==
    \/ TranslateToTeluguCall
    \/ TeluguStep(GtResponses)
    \/ TranslateToTeluguReturn

SpecTelugu == InitTelugu /\ [][NextTelugu]_vars

-----------------------------------------------------------------------------
(* Vocabulary of the properties *)

StageOrder ==
    <<"extract_pdf_text", "get_scheme_summary", "check_eligibility",
      "translate_to_hindi", "translate_to_telugu">>

Called(stage) == \E i \in 1..Len(calls) : calls[i] = stage
Returned(stage) == \E i \in 1..Len(rets) : rets[i] = stage

LaterStages == {StageOrder[i] : i \in 2..Len(StageOrder)}

Shown(widget, msg) ==
    {display[i].body : i \in {j \in 1..Len(display) :
                                 display[j].widget = widget /\ display[j].msg = msg}}

NonBlank(s) == \E i \in 1..Len(s) : ~IsSpace(s[i])

HiLog == SelectSeq(gt_log, LAMBDA e : e.target = "hi")
TeLog == SelectSeq(gt_log, LAMBDA e : e.target = "te")

Sources(log) == [i \in 1..Len(log) |-> log[i].src]

\* extraction has returned the empty string in this run
ExtractedEmpty == Returned("extract_pdf_text") /\ text = <<>>

RunEnded == pc \in {"done", "failed"}

-----------------------------------------------------------------------------
(* C1: when extract_pdf_text returns the empty string, the run goes to the    *)
(* terminal "could not extract text" state and none of get_scheme_summary,    *)
(* check_eligibility, translate_to_hindi, translate_to_telugu is called.      *)

C1_NoLaterStage == \A stage \in LaterStages : ~Called(stage)

C1_EmptyTextEndsRun ==
    /\ [](ExtractedEmpty => pc \in {"extracted", "failed"} /\ C1_NoLaterStage)
    /\ [][ExtractedEmpty =>
            /\ pc' = "failed"
            /\ C1_NoLaterStage'
            /\ display'[Len(display')].widget = "error"]_vars

C1_Witness ==
    /\ pc = "failed"
    /\ Len(doc) >= 2
    /\ "pdf" \notin caught
    /\ Shown("warning", "No text found in the PDF") # {}

-----------------------------------------------------------------------------
(* C2: once the analysis has started on a non-empty text, the run reaches     *)
(* "Analysis complete" whatever the completion and phrase services answer.    *)

C2_AnalysisReachesDone == (pc = "summarize") ~> (pc = "done")

C2_Witness ==
    /\ pc = "done"
    /\ caught = {"summary", "eligibility", "hindi_completion", "hindi_fallback",
                 "telugu_sentence"}

-----------------------------------------------------------------------------
(* C3: in one run the stage functions are invoked in the order extraction,    *)
(* summary, eligibility, Hindi, Telugu, each at most once, and none before    *)
(* the one before it has returned.                                            *)

C3_StagesInOrderOnce ==
    /\ IsPrefix(calls, StageOrder)
    /\ IsPrefix(rets, calls)
    /\ Len(calls) - Len(rets) <= 1

C3_Witness ==
    /\ pc = "done"
    /\ calls = StageOrder
    /\ {"summary", "hindi_completion", "hindi_fallback"} \subseteq caught

-----------------------------------------------------------------------------
(* C4: the string get_scheme_summary returned, error string included, is the  *)
(* one displayed, the one given to check_eligibility and the one at the head  *)
(* of both combined texts; the string check_eligibility returned is the one   *)
(* displayed and the one at the tail of both combined texts.                  *)

C4_ResultsFlowForward ==
    /\ "summary" \in caught => IsPrefix(ErrSummaryPrefix, summary)
    /\ "eligibility" \in caught => IsPrefix(ErrEligibilityPrefix, eligibility)
    /\ Returned("get_scheme_summary") =>
           Shown("markdown", "Scheme Summary") = {summary}
    /\ Called("check_eligibility") => elig_arg = summary
    /\ Returned("check_eligibility") =>
           Shown("markdown", "Your Eligibility Status") = {eligibility}
    /\ Called("translate_to_hindi") =>
           hindi_in = summary \o HindiLabel \o eligibility
    /\ Called("translate_to_telugu") =>
           telugu_in = summary \o TeluguLabel \o eligibility
    /\ pc = "done" /\ "summary" \in caught =>
           /\ Returned("check_eligibility")
           /\ Returned("translate_to_hindi")
           /\ Returned("translate_to_telugu")

C4_Witness ==
    /\ pc = "done"
    /\ "summary" \in caught
    /\ "eligibility" \in caught

-----------------------------------------------------------------------------
(* C5: translate_to_hindi returns the completion's content without using the  *)
(* phrase service when the completion succeeds; when it fails, the non-blank  *)
(* paragraphs (split on blank lines) are sent to the phrase service in order  *)
(* and their translations are rejoined with blank lines; when any part of     *)
(* that fallback fails the result is "Translation error: ..." and nothing     *)
(* else. The function always returns.                                         *)

C5_NonBlankParagraphs ==
    SelectSeq(SplitParagraphs(hindi_in), LAMBDA para : NonBlank(para))

C5_FallbackFailed ==
    \E i \in 1..Len(HiLog) : HiLog[i].resp \in {"raise", "none"}

C5_HindiFallbackChain ==
    /\ pc \in {"hindi_wait", "hindi_fallback", "hindi_return", "telugu"}
          => IsPrefix(Sources(HiLog), C5_NonBlankParagraphs)
    /\ pc \in {"hindi_return", "telugu"} =>
          IF "hindi_completion" \notin caught
          THEN /\ hindi_translation \in HindiContents
               /\ HiLog = <<>>
          ELSE IF C5_FallbackFailed
          THEN hindi_translation = TranslationErrorPrefix \o hindi_exc
          ELSE /\ Sources(HiLog) = C5_NonBlankParagraphs
               /\ hindi_translation =
                      Join([i \in 1..Len(HiLog) |-> GtValue("hi", HiLog[i].resp)],
                           <<"\n", "\n">>)

C5_Witness ==
    /\ pc = "telugu"
    /\ "hindi_completion" \in caught
    /\ Len(translated_paragraphs) >= 2
    /\ \E i \in 1..Len(translated_paragraphs) :
           translated_paragraphs[i] = NoneValue
    /\ \E i \in 1..Len(translated_paragraphs) :
           translated_paragraphs[i] = HiText
    /\ IsPrefix(TranslationErrorPrefix, hindi_translation)

-----------------------------------------------------------------------------
(* C6: in translate_to_telugu a sentence whose translation raises is kept as  *)
(* its trimmed original text at its place among the output segments, the      *)
(* sentences after it are still sent to the phrase service, and the call      *)
(* returns the segments joined with ". ".                                     *)

TrimmedCandidates(t) ==
    LET parts == SplitSentences(t) IN [i \in 1..Len(parts) |-> Strip(parts[i])]

KeptCandidates(t) == SelectSeq(TrimmedCandidates(t), LAMBDA c : Len(c) >= 3)

\* the number of output segments the first i requests have produced
C6_Position(i) ==
    Cardinality({j \in 1..i : TeLog[j].resp \in {"ok", "raise"}})

C6_FailedSentenceKept ==
    pc = "done" =>
        /\ Sources(TeLog) = KeptCandidates(telugu_in)
        /\ \A i \in 1..Len(TeLog) :
               TeLog[i].resp = "raise" =>
                   /\ C6_Position(i) <= Len(translated_sentences)
                   /\ translated_sentences[C6_Position(i)]
                          = KeptCandidates(telugu_in)[i]
        /\ telugu_translation = Join(translated_sentences, <<".", " ">>)

C6_Witness ==
    /\ pc = "done"
    /\ Len(TeLog) >= 2
    /\ TeLog[1].resp = "raise"
    /\ TeLog[2].resp = "ok"
    /\ translated_sentences = <<TeLog[1].src, TeText>>

-----------------------------------------------------------------------------
(* C7: translate_to_telugu never drops content: every candidate sentence of   *)
(* trimmed length 3 or more contributes exactly one segment, its translation  *)
(* or the original, in input order, whatever the phrase service answers;      *)
(* shorter candidates contribute none; the result is the segments joined      *)
(* with ". ".                                                                 *)

C7_NeverDropsContent ==
    pc = "done" =>
        /\ Len(translated_sentences) = Len(KeptCandidates(telugu_in))
        /\ \A i \in 1..Len(translated_sentences) :
               translated_sentences[i] \in {KeptCandidates(telugu_in)[i], TeText}
        /\ telugu_translation = Join(translated_sentences, <<".", " ">>)

-----------------------------------------------------------------------------
(* C8: the document text in the summary prompt is the input when it fits in   *)
(* max_chars; otherwise, with p the index of the last "." among the first     *)
(* max_chars characters, it is text[0..p] when p > 0.8 * max_chars and the    *)
(* first max_chars characters when not; a truncated text is longer than       *)
(* 0.8 * max_chars and no longer than max_chars.                              *)

C8_LastPeriod(t, budget) ==
    LET hits == {i \in 0..(budget - 1) : i < Len(t) /\ t[i + 1] = "."} IN
    IF hits = {} THEN -1 ELSE CHOOSE i \in hits : \A j \in hits : j <= i

C8_Reference(t, budget) ==
    IF Len(t) <= budget THEN t
    ELSE IF 10 * C8_LastPeriod(t, budget) > 8 * budget
         THEN SubSeq(t, 1, C8_LastPeriod(t, budget) + 1)
         ELSE SubSeq(t, 1, budget)

C8_TruncationMatchesReference ==
    Called("get_scheme_summary") =>
        /\ prompt_text = C8_Reference(text, max_chars)
        /\ Len(text) > max_chars =>
               /\ 10 * Len(prompt_text) > 8 * max_chars
               /\ Len(prompt_text) <= max_chars
               /\ 10 * C8_LastPeriod(text, max_chars) > 8 * max_chars =>
                      prompt_text[Len(prompt_text)] = "."

C8_Witness ==
    /\ Called("get_scheme_summary")
    /\ Len(text) > max_chars
    /\ Len(prompt_text) < max_chars
    /\ \E i \in 1..Len(prompt_text) - 1 : prompt_text[i] = "."

-----------------------------------------------------------------------------
(* C9: the extracted text is, for each page with non-whitespace text and in   *)
(* page order, one marker with the page's 1-based index followed by the       *)
(* page's text; whitespace-only pages add nothing; so the result is empty     *)
(* exactly when no page has non-whitespace text or the extraction raised.     *)

C9_TextPages == SortedSeq({k \in 1..Len(doc) : NonBlank(doc[k])})

C9_MarkerHead == <<"\n", "-", "-", "-", " ", "P", "a", "g", "e", " ">>

\* the page numbers of the markers found in t, in order of appearance
C9_MarkersIn(t) ==
    LET at == SortedSeq({i \in 1..Len(t) :
                            /\ i + 10 <= Len(t)
                            /\ SubSeq(t, i, i + 9) = C9_MarkerHead})
    IN [k \in 1..Len(at) |-> t[at[k] + 10]]

C9_OneMarkerPerTextPage ==
    Returned("extract_pdf_text") =>
        /\ "pdf" \notin caught =>
              /\ C9_MarkersIn(text)
                     = [i \in 1..Len(C9_TextPages) |-> Str(C9_TextPages[i])[1]]
              /\ text = Flatten([i \in 1..Len(C9_TextPages) |->
                                    PageMarker(C9_TextPages[i])
                                        \o doc[C9_TextPages[i]]])
        /\ text = <<>> <=> (C9_TextPages = <<>> \/ "pdf" \in caught)

C9_Witness ==
    /\ Returned("extract_pdf_text")
    /\ "pdf" \notin caught
    /\ Len(doc) = 3
    /\ ~NonBlank(doc[1])
    /\ doc[1] # <<>>
    /\ NonBlank(doc[2])
    /\ doc[3] = <<>>
    /\ C9_MarkersIn(text) = <<"2">>

-----------------------------------------------------------------------------
(* C10: every failure an except clause catches leaves a message or an error   *)
(* string of its stage in what the run displays.                              *)

C10_ErrorShownBy(widget, msg, prefix) ==
    \E body \in Shown(widget, msg) : IsPrefix(prefix, body)

C10_Indicated(failure) ==
    CASE failure = "pdf" -> Shown("error", "Error reading PDF: ") # {}
      [] failure = "summary" ->
             C10_ErrorShownBy("markdown", "Scheme Summary", ErrSummaryPrefix)
      [] failure = "eligibility" ->
             C10_ErrorShownBy("markdown", "Your Eligibility Status",
                              ErrEligibilityPrefix)
      [] failure \in {"hindi_completion", "hindi_fallback"} ->
             C10_ErrorShownBy("markdown", "Hindi", TranslationErrorPrefix)
      [] failure = "telugu_sentence" ->
             C10_ErrorShownBy("markdown", "Telugu", TranslationErrorPrefix)

C10_NothingSilentlySwallowed ==
    RunEnded => \A failure \in caught : C10_Indicated(failure)

\* amended: the failures of extraction, summary, eligibility and of the Hindi
\* fallback are shown as errors; a Hindi completion failure is shown exactly
\* when its fallback failed too; a Telugu sentence failure shows only the
\* untranslated sentence in the output
C10_CaughtFailuresShownExceptFallbacks ==
    RunEnded =>
        /\ \A failure \in caught \ {"hindi_completion", "telugu_sentence"} :
               C10_Indicated(failure)
        /\ "hindi_completion" \in caught =>
               (C10_Indicated("hindi_completion") <=> "hindi_fallback" \in caught)
        /\ \A i \in 1..Len(TeLog) :
               TeLog[i].resp = "raise" =>
                   \E k \in 1..Len(translated_sentences) :
                       translated_sentences[k] = TeLog[i].src

C10_Witness ==
    /\ pc = "done"
    /\ caught = {"hindi_completion", "telugu_sentence"}
    /\ ~C10_Indicated("hindi_completion")
    /\ ~C10_Indicated("telugu_sentence")

====
